---- MODULE Spec2Model ----
(***************************************************************************)
(* Archive pipeline of the plant-telemetry ETL: combine_tables,            *)
(* clean_outliers and calculate_averages of archive_pipeline/transform.py, *)
(* driven either by the Lambda handler (archive_pipeline/main.py) or by    *)
(* the script block of transform.py.                                       *)
(*                                                                         *)
(* A table (pandas DataFrame) is a sequence of rows, a row is a record.    *)
(* Signals are integer valued; a missing value (NaN / NULL) is the         *)
(* sentinel NaN for numbers and NA for names.  Quantiles are kept exact by *)
(* scaling: a quartile is stored as 4 times its value, a bound as 8 times  *)
(* its value, a mean as 100 times its rounded value.                       *)
(***************************************************************************)
EXTENDS Integers, Sequences, FiniteSets, TLC

(* ----------------------------- bounds ---------------------------------- *)
MaxDimRows == 2
MaxRecords == 2
MaxFilterRows == 4
HighSignal == 100

(* ------------------------- missing values ------------------------------ *)
NaN == -999
NA == "NaN"

(* ------------------------- generic helpers ----------------------------- *)
SeqsUpTo(S, n) == UNION {[1..k -> S] : k \in 0..n}

RECURSIVE Flatten(_)
Flatten(ss) == IF ss = <<>> THEN <<>> ELSE Head(ss) \o Flatten(Tail(ss))

RECURSIVE Sum(_)
Sum(s) == IF s = <<>> THEN 0 ELSE Head(s) + Sum(Tail(s))

RECURSIVE SortedSeq(_)
SortedSeq(S) ==
    IF S = {} THEN <<>>
    ELSE LET m == CHOOSE x \in S : \A y \in S : x <= y
         IN <<m>> \o SortedSeq(S \ {m})

Insert(x, s) ==
    LET k == Cardinality({i \in 1..Len(s) : s[i] <= x})
    IN SubSeq(s, 1, k) \o <<x>> \o SubSeq(s, k + 1, Len(s))

RECURSIVE Sorted(_)
Sorted(s) == IF s = <<>> THEN <<>> ELSE Insert(Head(s), Sorted(Tail(s)))

Column(df, col) == [i \in 1..Len(df) |-> df[i][col]]

Restrict(row, cols) == [f \in cols |-> row[f]]

(* ------------------------------ columns -------------------------------- *)
(* The column labels of the five tables. A frame with rows carries the     *)
(* labels of its rows; a frame without rows has those of its table.        *)
RecordColumns ==
    {"record_id", "plant_id", "botanist_id", "temperature", "moisture"}
PlantColumns == {"plant_id", "common_name", "scientific_name", "location_id"}
LocationColumns == {"location_id", "city", "country_id"}
CountryColumns == {"country_id", "country"}
BotanistColumns == {"botanist_id", "botanist_name"}
CombinedColumns ==
    RecordColumns \cup PlantColumns \cup LocationColumns
        \cup CountryColumns \cup BotanistColumns

ColumnsOf(df, schema) == IF df = <<>> THEN schema ELSE DOMAIN df[1]

DropColumn(df, c) ==
    [i \in 1..Len(df) |-> Restrict(df[i], DOMAIN df[i] \ {c})]

(* ------------------------------ merge ---------------------------------- *)
(* merge raises KeyError when the key is no column of one of its frames.   *)
MergeKeyError(leftColumns, rightColumns, key) ==
    key \notin leftColumns \/ key \notin rightColumns

CombineKeyError(country, botanist, location, plant, record) ==
    LET c0 == ColumnsOf(record, RecordColumns)
        c1 == c0 \cup ColumnsOf(plant, PlantColumns)
        c2 == c1 \cup ColumnsOf(location, LocationColumns)
        c3 == c2 \cup ColumnsOf(country, CountryColumns)
    IN \/ MergeKeyError(c0, ColumnsOf(plant, PlantColumns), "plant_id")
       \/ MergeKeyError(c1, ColumnsOf(location, LocationColumns), "location_id")
       \/ MergeKeyError(c2, ColumnsOf(country, CountryColumns), "country_id")
       \/ MergeKeyError(c3, ColumnsOf(botanist, BotanistColumns), "botanist_id")

(* The columns an unmatched left row gets from the right frame.            *)
NullsFor(right, nulls) ==
    IF right = <<>> THEN nulls
    ELSE Restrict(nulls, DOMAIN nulls \cap DOMAIN right[1])

PlantNulls == [common_name |-> NA, scientific_name |-> NA, location_id |-> NaN]
LocationNulls == [city |-> NA, country_id |-> NaN]
CountryNulls == [country |-> NA]
BotanistNulls == [botanist_name |-> NA]

MergeRowInner(l, right, key, nulls) ==
    LET matches == SelectSeq(right, LAMBDA r : r[key] = l[key])
    IN [j \in 1..Len(matches) |-> l @@ matches[j]]

MergeRow(l, right, key, nulls) ==
    LET matches == SelectSeq(right, LAMBDA r : r[key] = l[key])
    IN IF matches = <<>> THEN <<l @@ nulls>>
       ELSE [j \in 1..Len(matches) |-> l @@ matches[j]]

merge(left, right, key, nulls) ==
    Flatten([i \in 1..Len(left) |->
                MergeRow(left[i], right, key, NullsFor(right, nulls))])

mergeInner(left, right, key) ==
    Flatten([i \in 1..Len(left) |-> MergeRowInner(left[i], right, key, <<>>)])

combine_tablesBotanistInner(country, botanist, location, plant, record) ==
    LET df1 == merge(record, plant, "plant_id", PlantNulls)
        df2 == merge(df1, location, "location_id", LocationNulls)
        df3 == merge(df2, country, "country_id", CountryNulls)
    IN mergeInner(df3, botanist, "botanist_id")

combine_tables(country, botanist, location, plant, record) ==
    LET df1 == merge(record, plant, "plant_id", PlantNulls)
        df2 == merge(df1, location, "location_id", LocationNulls)
        df3 == merge(df2, country, "country_id", CountryNulls)
    IN merge(df3, botanist, "botanist_id", BotanistNulls)

(* ----------------------------- quantile -------------------------------- *)
NotNaN(s) == SelectSeq(s, LAMBDA x : x # NaN)

Quantile4OneBased(values, q) ==
    LET s == Sorted(NotNaN(values))
        n == Len(s)
        pos4 == q * n
        lo == IF pos4 \div 4 > n - 1 THEN n - 1 ELSE pos4 \div 4
        r == pos4 % 4
        hi == IF r = 0 \/ lo = n - 1 THEN lo ELSE lo + 1
    IN IF n = 0 THEN NaN
       ELSE 4 * s[lo + 1] + r * (s[hi + 1] - s[lo + 1])

Quantile4(values, q) ==
    LET s == Sorted(NotNaN(values))
        n == Len(s)
        pos4 == q * (n - 1)
        lo == pos4 \div 4
        r == pos4 % 4
        hi == IF r = 0 THEN lo ELSE lo + 1
    IN IF n = 0 THEN NaN
       ELSE 4 * s[lo + 1] + r * (s[hi + 1] - s[lo + 1])

LowerBound8AboveQ1(q1, q3) == IF q1 = NaN THEN NaN ELSE 2 * q1 + 3 * (q3 - q1)

LowerBound8(q1, q3) == IF q1 = NaN THEN NaN ELSE 2 * q1 - 3 * (q3 - q1)

UpperBound8AtQ3(q1, q3) == IF q1 = NaN THEN NaN ELSE 2 * q3

UpperBound8(q1, q3) == IF q1 = NaN THEN NaN ELSE 2 * q3 + 3 * (q3 - q1)

InBoundsStrict(x, lower8, upper8) ==
    /\ x # NaN
    /\ lower8 # NaN
    /\ 8 * x > lower8
    /\ 8 * x < upper8

InBounds(x, lower8, upper8) ==
    /\ x # NaN
    /\ lower8 # NaN
    /\ 8 * x >= lower8
    /\ 8 * x <= upper8

MaskLowerOnly(grp, col) ==
    LET q1 == Quantile4(Column(grp, col), 1)
        q3 == Quantile4(Column(grp, col), 3)
    IN [i \in 1..Len(grp) |->
          /\ grp[i][col] # NaN
          /\ 8 * grp[i][col] >= LowerBound8(q1, q3)]

Mask(grp, col) ==
    LET q1 == Quantile4(Column(grp, col), 1)
        q3 == Quantile4(Column(grp, col), 3)
    IN [i \in 1..Len(grp) |->
          InBounds(grp[i][col], LowerBound8(q1, q3), UpperBound8(q1, q3))]

ApplyMask(grp, mask) ==
    LET idx == SortedSeq({i \in 1..Len(grp) : mask[i]})
    IN [k \in 1..Len(idx) |-> grp[idx[k]]]

(* One stage of the loop body of clean_outliers: the rows of grp inside    *)
(* the IQR bounds of column col, and the number of rows removed.          *)
StageCountsKept(grp, col) ==
    LET kept == ApplyMask(grp, Mask(grp, col))
    IN [group |-> kept, outliers |-> Len(kept)]

Stage(grp, col) ==
    LET kept == ApplyMask(grp, Mask(grp, col))
    IN [group |-> kept, outliers |-> Len(grp) - Len(kept)]

TemperatureStageKeepsAll(grp) ==
    [group |-> grp, outliers |-> Stage(grp, "temperature").outliers]

TemperatureStage(grp) == Stage(grp, "temperature")

MoistureStageKeptMinusAll(grp) ==
    [group |-> Stage(grp, "moisture").group,
     outliers |-> Len(Stage(grp, "moisture").group) - Len(grp)]

MoistureStage(grp) == Stage(grp, "moisture")

GroupKeysAtLeastFour(df) ==
    SortedSeq({pid \in {df[i].plant_id : i \in 1..Len(df)} \ {NaN} :
                  Len(SelectSeq(df, LAMBDA row : row.plant_id = pid)) >= 4})

GroupKeys(df) == SortedSeq({df[i].plant_id : i \in 1..Len(df)} \ {NaN})

GroupOf(df, pid) == SelectSeq(df, LAMBDA row : row.plant_id = pid)

(* ------------------------ calculate_averages --------------------------- *)
NameOrder == <<NA, "Rosa", "Rose", "Tulip", "Tulipa">>
NameRank(name) == CHOOSE i \in 1..Len(NameOrder) : NameOrder[i] = name

KeyLeq(a, b) ==
    \/ a[1] < b[1]
    \/ a[1] = b[1] /\ NameRank(a[2]) < NameRank(b[2])
    \/ a[1] = b[1] /\ a[2] = b[2] /\ NameRank(a[3]) <= NameRank(b[3])

RECURSIVE SortedKeys(_)
SortedKeys(S) ==
    IF S = {} THEN <<>>
    ELSE LET m == CHOOSE x \in S : \A y \in S : KeyLeq(x, y)
         IN <<m>> \o SortedKeys(S \ {m})

RowKey(row) == <<row.plant_id, row.common_name, row.scientific_name>>

AvgGroupKeys(df) ==
    SortedKeys({RowKey(df[i]) : i \in
        {j \in 1..Len(df) : /\ df[j].plant_id # NaN
                            /\ df[j].common_name # NA
                            /\ df[j].scientific_name # NA}})

RoundHalfEven(num, den) ==
    LET q == num \div den
        r == num % den
    IN IF 2 * r < den THEN q
       ELSE IF 2 * r > den THEN q + 1
       ELSE IF q % 2 = 0 THEN q ELSE q + 1

(* Signal values are integers counting 1/SignalResolution of a degree or   *)
(* of a percent; a mean is returned in hundredths.                         *)
SignalResolution == 1000

Mean100(values) ==
    LET v == NotNaN(values)
    IN IF v = <<>> THEN NaN
       ELSE RoundHalfEven(100 * Sum(v), Len(v) * SignalResolution)

DictGetNoDefault(counts, pid, signal) ==
    IF pid \in DOMAIN counts /\ signal \in DOMAIN counts[pid]
    THEN counts[pid][signal] ELSE NaN

DictGet(counts, pid, signal) ==
    IF pid \in DOMAIN counts /\ signal \in DOMAIN counts[pid]
    THEN counts[pid][signal] ELSE 0

AvgRow(df, key, counts) ==
    LET rows == SelectSeq(df, LAMBDA row : RowKey(row) = key)
    IN [plant_id |-> key[1],
        common_name |-> key[2],
        scientific_name |-> key[3],
        avg_temperature |-> Mean100(Column(rows, "temperature")),
        avg_moisture |-> Mean100(Column(rows, "moisture")),
        temperature_outliers |-> DictGet(counts, key[1], "temperature"),
        moisture_outliers |-> DictGet(counts, key[1], "moisture")]

calculate_averages(original_df_arg, cleaned_df_arg, counts) ==
    LET keys == AvgGroupKeys(cleaned_df_arg)
    IN [k \in 1..Len(keys) |-> AvgRow(cleaned_df_arg, keys[k], counts)]

(* Column labels of the summary table, in order. reset_index puts the      *)
(* group keys first, the named aggregations follow in the order they are   *)
(* written, and an assignment to a new label appends it while an           *)
(* assignment to an existing label keeps its position.                     *)
GroupByKeys == <<"plant_id", "common_name", "scientific_name">>
AggColumns == <<"avg_temperature", "avg_moisture">>

AssignColumn(cols, c) ==
    IF \E i \in 1..Len(cols) : cols[i] = c THEN cols ELSE Append(cols, c)

AvgColumnsMoistureFirst ==
    AssignColumn(AssignColumn(AssignColumn(AssignColumn(
        GroupByKeys \o AggColumns,
        "moisture_outliers"), "temperature_outliers"),
        "avg_temperature"), "avg_moisture")

AvgColumns ==
    AssignColumn(AssignColumn(AssignColumn(AssignColumn(
        GroupByKeys \o AggColumns,
        "temperature_outliers"), "moisture_outliers"),
        "avg_temperature"), "avg_moisture")

(* Binding of a positional call to the three required parameters of        *)
(* calculate_averages: a call with another number of arguments raises.     *)
NumParams == 3

(* groupby and the named aggregation raise KeyError on an absent column.   *)
AveragesKeyError(df) ==
    \E c \in {"plant_id", "common_name", "scientific_name",
               "temperature", "moisture"} :
        c \notin ColumnsOf(df, CombinedColumns)

CallCalculateAverages(args) ==
    IF Len(args) # NumParams
    THEN [raised |-> "TypeError", value |-> <<>>, columns |-> <<>>]
    ELSE IF AveragesKeyError(args[2])
    THEN [raised |-> "KeyError", value |-> <<>>, columns |-> <<>>]
    ELSE [raised |-> "none",
          value |-> calculate_averages(args[1], args[2], args[3]),
          columns |-> AvgColumns]

(* pd.concat of the per-plant frames: an empty list raises ValueError.     *)
concat(dfs) ==
    IF dfs = <<>>
    THEN [raised |-> "ValueError", value |-> <<>>]
    ELSE [raised |-> "none", value |-> Flatten(dfs)]

EmptyDict == [x \in {} |-> 0]

(* ------------------------------ inputs --------------------------------- *)
CountryRows == {[country_id |-> 1, country |-> "UK"]}
LocationRows == {[location_id |-> 1, city |-> "Leeds", country_id |-> 1]}
BotanistRows == {[botanist_id |-> 1, botanist_name |-> "Alice"]}
PlantRows ==
    {[plant_id |-> 1, common_name |-> "Rose", scientific_name |-> "Rosa",
      location_id |-> 1],
     [plant_id |-> 2, common_name |-> "Tulip", scientific_name |-> "Tulipa",
      location_id |-> NaN]}

RecordRow(p, t, m) ==
    [plant_id |-> p, botanist_id |-> 1, temperature |-> t, moisture |-> m]

(* Record rows of the join runs: plant 3 has no Plant row.                 *)
JoinRecordRows == {RecordRow(p, 0, 0) : p \in {1, 3}}

(* Record rows of the filter runs.                                         *)
FilterRecordRows ==
    {RecordRow(1, t, m) : t \in {0, HighSignal}, m \in {0, HighSignal}}
    \cup {RecordRow(1, NaN, 0), RecordRow(1, 0, NaN), RecordRow(2, 0, 0)}

(* The Record table of a row sequence: record_id is the row's position.    *)
WithIds(rows) == [i \in 1..Len(rows) |-> rows[i] @@ [record_id |-> i]]

RecordTables(rows, n) == {WithIds(t) : t \in SeqsUpTo(rows, n)}

Callers == {"handler", "script"}

(* ------------------------------- state --------------------------------- *)
VARIABLES country_df, botanist_df, location_df, plant_df, record_df,
          caller, pc, combined_df, keys, plant_id, group, temp_outliers,
          cleaned_dfs, outlier_counts, cleaned_df, final_avg_df,
          error, statusCode, final_columns, run, previous,
          db, ext, plants, api, arch

inputs == <<country_df, botanist_df, location_df, plant_df, record_df, caller>>
locals == <<keys, plant_id, group, temp_outliers, cleaned_dfs, outlier_counts>>
history == <<run, previous>>
(* The database, and the frames of the functions around the transform:    *)
(* extract.main, extract_all_plants, the api handler and the archive       *)
(* handler's connection.                                                   *)
outside == <<db, ext, plants, api, arch>>
pipeline == <<inputs, pc, combined_df, locals, cleaned_df, final_avg_df,
              error, statusCode, final_columns, history>>
vars == <<pipeline, outside>>

NoTables ==
    [Country |-> <<>>, Location |-> <<>>, Plant |-> <<>>, Botanist |-> <<>>,
     Record |-> <<>>]

NotCalled == [pc |-> "idle"]

(* The transform run on frames: no database and no caller around it.       *)
OutsideIdle ==
    /\ db = NoTables
    /\ ext = NotCalled
    /\ plants = NotCalled
    /\ api = NotCalled
    /\ arch = NotCalled

Start ==
    /\ pc = "combine"
    /\ combined_df = <<>>
    /\ keys = <<>>
    /\ plant_id = 0
    /\ group = <<>>
    /\ temp_outliers = 0
    /\ cleaned_dfs = <<>>
    /\ outlier_counts = EmptyDict
    /\ cleaned_df = <<>>
    /\ final_avg_df = <<>>
    /\ error = "none"
    /\ statusCode = 0
    /\ final_columns = <<>>
    /\ run = 1
    /\ previous = <<>>
    /\ OutsideIdle

Init ==
    /\ country_df \in SeqsUpTo(CountryRows, MaxDimRows)
    /\ botanist_df \in SeqsUpTo(BotanistRows, MaxDimRows)
    /\ location_df \in SeqsUpTo(LocationRows, MaxDimRows)
    /\ plant_df \in SeqsUpTo(PlantRows, MaxDimRows)
    /\ record_df \in RecordTables(JoinRecordRows, MaxRecords)
    /\ caller \in Callers
    /\ Start

InitFilter ==
    /\ country_df = <<[country_id |-> 1, country |-> "UK"]>>
    /\ botanist_df = <<[botanist_id |-> 1, botanist_name |-> "Alice"]>>
    /\ location_df = <<[location_id |-> 1, city |-> "Leeds", country_id |-> 1]>>
    /\ plant_df = <<[plant_id |-> 1, common_name |-> "Rose",
                     scientific_name |-> "Rosa", location_id |-> 1],
                    [plant_id |-> 2, common_name |-> "Tulip",
                     scientific_name |-> "Tulipa", location_id |-> NaN]>>
    /\ record_df \in RecordTables(FilterRecordRows, MaxFilterRows)
    /\ caller = "script"
    /\ Start

(* ------------------------------ actions -------------------------------- *)
(* main.py:48-49 and transform.py:99-100 *)
MergeOrSkip(left, right, key, nulls) ==
    IF MergeKeyError(ColumnsOf(left, {key}), ColumnsOf(right, {key}), key)
    THEN left ELSE merge(left, right, key, nulls)

CombineTablesSkipsAbsentKey ==
    /\ pc = "combine"
    /\ combined_df' =
           MergeOrSkip(MergeOrSkip(MergeOrSkip(MergeOrSkip(
               record_df, plant_df, "plant_id", PlantNulls),
               location_df, "location_id", LocationNulls),
               country_df, "country_id", CountryNulls),
               botanist_df, "botanist_id", BotanistNulls)
    /\ pc' = "clean"
    /\ UNCHANGED <<outside, history, inputs, locals, cleaned_df, final_avg_df,
                   final_columns, error, statusCode>>

CombineTables ==
    /\ pc = "combine"
    /\ IF CombineKeyError(country_df, botanist_df, location_df, plant_df,
                          record_df)
       THEN /\ error' = "KeyError"
            /\ pc' = "raised"
            /\ UNCHANGED combined_df
       ELSE /\ combined_df' = combine_tables(country_df, botanist_df,
                                             location_df, plant_df, record_df)
            /\ pc' = "clean"
            /\ UNCHANGED error
    /\ UNCHANGED <<outside, history, inputs, locals, cleaned_df, final_avg_df,
                   final_columns, statusCode>>

CleanOutliersBeginKeepsAccumulators ==
    /\ pc = "clean"
    /\ keys' = GroupKeys(combined_df)
    /\ pc' = IF GroupKeys(combined_df) = <<>> THEN "concat" ELSE "temperature"
    /\ UNCHANGED <<outside, history, inputs, combined_df, plant_id, group, temp_outliers,
                   cleaned_dfs, outlier_counts,
                   cleaned_df, final_avg_df, final_columns, error, statusCode>>

(* clean_outliers, lines 23-26: the accumulators and the groupby *)
CleanOutliersBegin ==
    /\ pc = "clean"
    /\ cleaned_dfs' = <<>>
    /\ outlier_counts' = EmptyDict
    /\ IF "plant_id" \notin ColumnsOf(combined_df, CombinedColumns)
       THEN /\ error' = "KeyError"
            /\ pc' = "raised"
            /\ UNCHANGED keys
       ELSE /\ keys' = GroupKeys(combined_df)
            /\ pc' = IF GroupKeys(combined_df) = <<>>
                     THEN "concat" ELSE "temperature"
            /\ UNCHANGED error
    /\ UNCHANGED <<outside, history, inputs, combined_df, plant_id, group, temp_outliers,
                   cleaned_df, final_avg_df, final_columns, statusCode>>

CleanTemperatureWholeFrame ==
    /\ pc = "temperature"
    /\ LET grp == GroupOf(combined_df, Head(keys))
           q1 == Quantile4(Column(combined_df, "temperature"), 1)
           q3 == Quantile4(Column(combined_df, "temperature"), 3)
           kept == SelectSeq(grp, LAMBDA row :
                       InBounds(row.temperature, LowerBound8(q1, q3),
                                UpperBound8(q1, q3)))
       IN /\ plant_id' = Head(keys)
          /\ temp_outliers' = Len(grp) - Len(kept)
          /\ group' = kept
    /\ keys' = Tail(keys)
    /\ pc' = "moisture"
    /\ UNCHANGED <<outside, history, inputs, combined_df, cleaned_dfs, outlier_counts,
                   cleaned_df, final_avg_df, final_columns, error, statusCode>>

(* clean_outliers, lines 26-40: next group, temperature stage *)
CleanTemperature ==
    /\ pc = "temperature"
    /\ plant_id' = Head(keys)
    /\ keys' = Tail(keys)
    /\ IF "temperature" \notin ColumnsOf(combined_df, CombinedColumns)
       THEN /\ error' = "KeyError"
            /\ pc' = "raised"
            /\ group' = GroupOf(combined_df, Head(keys))
            /\ temp_outliers' = 0
       ELSE /\ LET grp == GroupOf(combined_df, Head(keys))
                   res == TemperatureStage(grp)
               IN /\ temp_outliers' = res.outliers
                  /\ group' = res.group
            /\ pc' = "moisture"
            /\ UNCHANGED error
    /\ UNCHANGED <<outside, history, inputs, combined_df, cleaned_dfs, outlier_counts,
                   cleaned_df, final_avg_df, final_columns, statusCode>>

CleanMoistureFromOriginalSize ==
    /\ pc = "moisture"
    /\ LET res == MoistureStage(group)
       IN /\ group' = res.group
          /\ outlier_counts' =
                 (plant_id :> [temperature |-> temp_outliers,
                               moisture |-> Len(GroupOf(combined_df, plant_id))
                                            - Len(res.group)]) @@ outlier_counts
          /\ cleaned_dfs' = Append(cleaned_dfs, res.group)
    /\ pc' = IF keys = <<>> THEN "concat" ELSE "temperature"
    /\ UNCHANGED <<outside, history, inputs, combined_df, keys, plant_id, temp_outliers,
                   cleaned_df, final_avg_df, final_columns, error, statusCode>>

(* clean_outliers, lines 42-55: moisture stage, counts and accumulation *)
CleanMoisture ==
    /\ pc = "moisture"
    /\ IF "moisture" \notin ColumnsOf(combined_df, CombinedColumns)
       THEN /\ error' = "KeyError"
            /\ pc' = "raised"
            /\ UNCHANGED <<group, outlier_counts, cleaned_dfs>>
       ELSE /\ LET res == MoistureStage(group)
               IN /\ group' = res.group
                  /\ outlier_counts' =
                         (plant_id :> [temperature |-> temp_outliers,
                                       moisture |-> res.outliers])
                             @@ outlier_counts
                  /\ cleaned_dfs' = Append(cleaned_dfs, res.group)
            /\ pc' = IF keys = <<>> THEN "concat" ELSE "temperature"
            /\ UNCHANGED error
    /\ UNCHANGED <<outside, history, inputs, combined_df, keys, plant_id, temp_outliers,
                   cleaned_df, final_avg_df, final_columns, statusCode>>

CleanOutliersReturnDropsFirst ==
    /\ pc = "concat"
    /\ LET res == concat(IF cleaned_dfs = <<>> THEN <<>>
                         ELSE Tail(cleaned_dfs))
       IN /\ error' = res.raised
          /\ cleaned_df' = res.value
          /\ pc' = IF res.raised = "none" THEN "averages" ELSE "raised"
    /\ UNCHANGED <<outside, history, inputs, combined_df, locals, final_avg_df, final_columns, statusCode>>

(* clean_outliers, line 57 *)
CleanOutliersReturn ==
    /\ pc = "concat"
    /\ LET res == concat(cleaned_dfs)
       IN /\ error' = res.raised
          /\ cleaned_df' = res.value
          /\ pc' = IF res.raised = "none" THEN "averages" ELSE "raised"
    /\ UNCHANGED <<outside, history, inputs, combined_df, locals, final_avg_df, final_columns, statusCode>>

ScriptCalculateAveragesPopsCounts ==
    /\ pc = "averages"
    /\ caller = "script"
    /\ LET res == CallCalculateAverages(
                      <<combined_df, cleaned_df, outlier_counts>>)
           read == {res.value[i].plant_id : i \in 1..Len(res.value)}
       IN /\ error' = res.raised
          /\ final_avg_df' = res.value
          /\ final_columns' = res.columns
          /\ outlier_counts' =
                 [pid \in DOMAIN outlier_counts \ read |-> outlier_counts[pid]]
          /\ pc' = IF res.raised = "none" THEN "done" ELSE "raised"
    /\ UNCHANGED <<outside, history, inputs, combined_df, keys, plant_id, group,
                   temp_outliers, cleaned_dfs, cleaned_df, statusCode>>

(* transform.py:102: the script passes three arguments *)
ScriptCalculateAverages ==
    /\ pc = "averages"
    /\ caller = "script"
    /\ LET res == CallCalculateAverages(
                      <<combined_df, cleaned_df, outlier_counts>>)
       IN /\ error' = res.raised
          /\ final_avg_df' = res.value
          /\ final_columns' = res.columns
          /\ pc' = IF res.raised = "none" THEN "done" ELSE "raised"
    /\ UNCHANGED <<outside, history, inputs, combined_df, locals, cleaned_df, statusCode>>

(* main.py:55: the handler passes two arguments *)
cleanup_old_records(database) == [database EXCEPT !.Record = <<>>]

(* main.py:55-76: the call of calculate_averages and, when it returns, the *)
(* upload, which may raise, the cleanup and the 200 response.              *)
HandlerCalculateAverages ==
    /\ pc = "averages"
    /\ caller = "handler"
    /\ LET res == CallCalculateAverages(<<cleaned_df, outlier_counts>>)
       IN /\ final_avg_df' = res.value
          /\ final_columns' = res.columns
          /\ IF res.raised # "none"
             THEN /\ error' = res.raised
                  /\ pc' = "raised"
                  /\ UNCHANGED <<db, statusCode>>
             ELSE \E uploaded \in BOOLEAN :
                    IF uploaded
                    THEN /\ db' = cleanup_old_records(db)
                         /\ statusCode' = 200
                         /\ pc' = "returned"
                         /\ UNCHANGED error
                    ELSE /\ error' = "ClientError"
                         /\ pc' = "raised"
                         /\ UNCHANGED <<db, statusCode>>
    /\ UNCHANGED <<ext, plants, api, arch, history, inputs, combined_df,
                   locals, cleaned_df>>

HandlerExceptCleansUp ==
    /\ pc = "raised"
    /\ caller = "handler"
    /\ statusCode' = 500
    /\ pc' = "returned"
    /\ db' = cleanup_old_records(db)
    /\ UNCHANGED <<ext, plants, api, arch, history, inputs, combined_df,
                   locals, cleaned_df, final_avg_df, final_columns, error>>

(* main.py:78-83: the handler turns any exception into a 500 response *)
HandlerExcept ==
    /\ pc = "raised"
    /\ caller = "handler"
    /\ statusCode' = 500
    /\ pc' = "returned"
    /\ UNCHANGED <<outside, history, inputs, combined_df, locals, cleaned_df, final_avg_df, final_columns, error>>

Next ==
    \/ CombineTables
    \/ CleanOutliersBegin
    \/ CleanTemperature
    \/ CleanMoisture
    \/ CleanOutliersReturn
    \/ ScriptCalculateAverages
    \/ HandlerCalculateAverages
    \/ HandlerExcept

Spec == Init /\ [][Next]_vars

(* The script block of transform.py alone (transform.py:91-105).           *)
NextScript ==
    \/ CombineTables
    \/ CleanOutliersBegin
    \/ CleanTemperature
    \/ CleanMoisture
    \/ CleanOutliersReturn
    \/ ScriptCalculateAverages

SpecFilter == InitFilter /\ [][NextScript]_vars

(* ---------------- the five readings of the outlier test ---------------- *)
ScenarioRows ==
    {RecordRow(1, 20 * SignalResolution, 60 * SignalResolution),
     RecordRow(1, 21 * SignalResolution, 61 * SignalResolution),
     RecordRow(1, 22 * SignalResolution, 59 * SignalResolution),
     RecordRow(1, 50 * SignalResolution, 62 * SignalResolution),
     RecordRow(1, 19 * SignalResolution, 58 * SignalResolution)}

(* The five rows in any order.                                             *)
Orderings(S) ==
    {t \in [1..Cardinality(S) -> S] :
        \A i, j \in 1..Cardinality(S) : t[i] = t[j] => i = j}

InitScenario ==
    /\ country_df = <<[country_id |-> 1, country |-> "UK"]>>
    /\ botanist_df = <<[botanist_id |-> 1, botanist_name |-> "Alice"]>>
    /\ location_df = <<[location_id |-> 1, city |-> "Leeds", country_id |-> 1]>>
    /\ plant_df = <<[plant_id |-> 1, common_name |-> "Rose",
                     scientific_name |-> "Rosa", location_id |-> 1]>>
    /\ record_df \in {WithIds(t) : t \in Orderings(ScenarioRows)}
    /\ caller = "script"
    /\ Start

SpecScenario == InitScenario /\ [][NextScript]_vars

(* -------------------- frames with an absent column --------------------- *)
(* Each function is entered with frames that have rows and from which at   *)
(* most one column was dropped.                                            *)
NoDrop == <<"none", "none">>

InputDrops ==
    {NoDrop}
    \cup {<<"Record", c>> : c \in RecordColumns}
    \cup {<<"Plant", c>> : c \in PlantColumns}
    \cup {<<"Location", c>> : c \in LocationColumns}
    \cup {<<"Country", c>> : c \in CountryColumns}
    \cup {<<"Botanist", c>> : c \in BotanistColumns}

DropFrom(d, table, df) == IF d[1] = table THEN DropColumn(df, d[2]) ELSE df

OnePlant ==
    <<[plant_id |-> 1, common_name |-> "Rose", scientific_name |-> "Rosa",
       location_id |-> 1]>>
OneLocation == <<[location_id |-> 1, city |-> "Leeds", country_id |-> 1]>>
OneCountry == <<[country_id |-> 1, country |-> "UK"]>>
OneBotanist == <<[botanist_id |-> 1, botanist_name |-> "Alice"]>>

RecordsWithRows == RecordTables(JoinRecordRows, MaxRecords) \ {<<>>}

CombinedFrames ==
    {combine_tables(OneCountry, OneBotanist, OneLocation, OnePlant, t) :
        t \in RecordsWithRows}

FrameDrops == {DropColumn(df, c) : df \in CombinedFrames,
                                   c \in CombinedColumns \cup {"none"}}

NoLocals ==
    /\ keys = <<>>
    /\ plant_id = 0
    /\ group = <<>>
    /\ temp_outliers = 0
    /\ cleaned_dfs = <<>>
    /\ outlier_counts = EmptyDict
    /\ final_avg_df = <<>>
    /\ error = "none"
    /\ statusCode = 0
    /\ final_columns = <<>>
    /\ run = 1
    /\ previous = <<>>
    /\ OutsideIdle

NoInputs ==
    /\ country_df = <<>>
    /\ botanist_df = <<>>
    /\ location_df = <<>>
    /\ plant_df = <<>>
    /\ record_df = <<>>

InitColumns ==
    /\ caller = "script"
    /\ NoLocals
    /\ \/ /\ pc = "combine"
          /\ \E d \in InputDrops :
                /\ country_df = DropFrom(d, "Country", OneCountry)
                /\ botanist_df = DropFrom(d, "Botanist", OneBotanist)
                /\ location_df = DropFrom(d, "Location", OneLocation)
                /\ plant_df = DropFrom(d, "Plant", OnePlant)
                /\ record_df \in {DropFrom(d, "Record", t) :
                                     t \in RecordsWithRows}
          /\ combined_df = <<>>
          /\ cleaned_df = <<>>
       \/ /\ pc = "clean"
          /\ NoInputs
          /\ combined_df \in FrameDrops
          /\ cleaned_df = <<>>
       \/ /\ pc = "averages"
          /\ NoInputs
          /\ combined_df \in CombinedFrames
          /\ cleaned_df \in FrameDrops

SpecColumns == InitColumns /\ [][NextScript]_vars

(* ---------------------- plants with few readings ----------------------- *)
MaxSmallRows == 3

SmallRecordRows ==
    {RecordRow(1, 0, 0), RecordRow(1, HighSignal, 0), RecordRow(1, NaN, 0),
     RecordRow(1, 0, HighSignal), RecordRow(1, 0, NaN), RecordRow(2, 0, 0),
     RecordRow(2, HighSignal, 0)}

InitSmall ==
    /\ country_df = <<[country_id |-> 1, country |-> "UK"]>>
    /\ botanist_df = <<[botanist_id |-> 1, botanist_name |-> "Alice"]>>
    /\ location_df = <<[location_id |-> 1, city |-> "Leeds", country_id |-> 1]>>
    /\ plant_df = <<[plant_id |-> 1, common_name |-> "Rose",
                     scientific_name |-> "Rosa", location_id |-> 1],
                    [plant_id |-> 2, common_name |-> "Tulip",
                     scientific_name |-> "Tulipa", location_id |-> NaN]>>
    /\ record_df \in RecordTables(SmallRecordRows, MaxSmallRows)
    /\ caller = "script"
    /\ Start

SpecSmall == InitSmall /\ [][NextScript]_vars

(* ------------------- one plant with a single reading ------------------- *)
(* Readings with a third decimal; plant 3 has no Plant row.                *)
SingleSignals == {0, 20125, 20126, 20135}

InitSingle ==
    /\ country_df = <<[country_id |-> 1, country |-> "UK"]>>
    /\ botanist_df = <<[botanist_id |-> 1, botanist_name |-> "Alice"]>>
    /\ location_df = <<[location_id |-> 1, city |-> "Leeds", country_id |-> 1]>>
    /\ plant_df = <<[plant_id |-> 1, common_name |-> "Rose",
                     scientific_name |-> "Rosa", location_id |-> 1]>>
    /\ record_df \in {WithIds(<<RecordRow(p, t, m)>>) :
                         p \in {1, 3}, t \in SingleSignals, m \in SingleSignals}
    /\ caller = "script"
    /\ Start

SpecSingle == InitSingle /\ [][NextScript]_vars

(* ------------------- the pipeline run a second time -------------------- *)
MaxRerunRows == 4

RerunRecordRows ==
    {RecordRow(1, 0, 0), RecordRow(2, 0, 0), RecordRow(2, HighSignal, 0)}

InitRerun ==
    /\ country_df = <<[country_id |-> 1, country |-> "UK"]>>
    /\ botanist_df = <<[botanist_id |-> 1, botanist_name |-> "Alice"]>>
    /\ location_df = <<[location_id |-> 1, city |-> "Leeds", country_id |-> 1]>>
    /\ plant_df = <<[plant_id |-> 1, common_name |-> "Rose",
                     scientific_name |-> "Rosa", location_id |-> 1],
                    [plant_id |-> 2, common_name |-> "Tulip",
                     scientific_name |-> "Tulipa", location_id |-> NaN]>>
    /\ record_df \in RecordTables(RerunRecordRows, MaxRerunRows)
    /\ caller = "script"
    /\ Start

(* The outputs of a run, kept by the caller that runs the pipeline again.  *)
Outputs ==
    [record_df |-> record_df, error |-> error, cleaned_df |-> cleaned_df,
     outlier_counts |-> outlier_counts, final_avg_df |-> final_avg_df]

(* A second run, on a Record table that has the same rows for plant 1 (it  *)
(* may be the same table). Nothing but the inputs is handed to the new     *)
(* run: each function initialises its own locals.                          *)
Rerun ==
    /\ run = 1
    /\ pc \in {"done", "raised"}
    /\ previous' = Outputs
    /\ run' = 2
    /\ record_df' \in {t \in RecordTables(RerunRecordRows, MaxRerunRows) :
                          GroupOf(t, 1) = GroupOf(record_df, 1)}
    /\ error' = "none"
    /\ pc' = "combine"
    /\ UNCHANGED <<outside, country_df, botanist_df, location_df, plant_df, caller,
                   combined_df, locals, cleaned_df, final_avg_df,
                   final_columns, statusCode>>

NextRerun ==
    \/ CombineTables
    \/ CleanOutliersBegin
    \/ CleanTemperature
    \/ CleanMoisture
    \/ CleanOutliersReturn
    \/ ScriptCalculateAverages
    \/ Rerun

SpecRerun == InitRerun /\ [][NextRerun]_vars

(* ------------- calculate_averages called on its own -------------------- *)
(* Rows of a cleaned table as calculate_averages reads them.               *)
MaxAvgRows == 2

CleanedRows ==
    {[plant_id |-> 1, common_name |-> "Rose", scientific_name |-> "Rosa",
      temperature |-> 0, moisture |-> 0],
     [plant_id |-> 2, common_name |-> "Tulip", scientific_name |-> "Tulipa",
      temperature |-> 0, moisture |-> 0],
     [plant_id |-> 3, common_name |-> NA, scientific_name |-> NA,
      temperature |-> 0, moisture |-> 0]}

(* Outlier-count maps: a plant may have no entry, and an entry may lack a  *)
(* signal key.                                                             *)
CountEntries ==
    {[temperature |-> 1, moisture |-> 2], [temperature |-> 1],
     [moisture |-> 2], EmptyDict}

CountMaps == UNION {[ids -> CountEntries] : ids \in SUBSET {1, 2}}

InitAverages ==
    /\ country_df = <<>>
    /\ botanist_df = <<>>
    /\ location_df = <<>>
    /\ plant_df = <<>>
    /\ record_df = <<>>
    /\ caller = "script"
    /\ cleaned_df \in SeqsUpTo(CleanedRows, MaxAvgRows)
    /\ combined_df = cleaned_df
    /\ outlier_counts \in CountMaps
    /\ pc = "averages"
    /\ keys = <<>>
    /\ plant_id = 0
    /\ group = <<>>
    /\ temp_outliers = 0
    /\ cleaned_dfs = <<>>
    /\ final_avg_df = <<>>
    /\ error = "none"
    /\ statusCode = 0
    /\ final_columns = <<>>
    /\ run = 1
    /\ previous = <<>>
    /\ OutsideIdle

NextAverages == ScriptCalculateAverages

SpecAverages == InitAverages /\ [][NextAverages]_vars

(* ===================== around the transform ============================ *)
(* No transform is running.                                                *)
TransformIdle ==
    /\ NoInputs
    /\ caller = "none"
    /\ pc = "idle"
    /\ combined_df = <<>>
    /\ cleaned_df = <<>>
    /\ keys = <<>>
    /\ plant_id = 0
    /\ group = <<>>
    /\ temp_outliers = 0
    /\ cleaned_dfs = <<>>
    /\ outlier_counts = EmptyDict
    /\ final_avg_df = <<>>
    /\ error = "none"
    /\ statusCode = 0
    /\ final_columns = <<>>
    /\ run = 1
    /\ previous = <<>>

(* ------------------- archive_pipeline extract.main --------------------- *)
Tables == <<"Country", "Location", "Plant", "Botanist", "Record">>

Databases ==
    {[Country |-> OneCountry, Location |-> OneLocation, Plant |-> p,
      Botanist |-> OneBotanist, Record |-> r] :
        p \in SeqsUpTo(PlantRows, MaxDimRows),
        r \in RecordTables(JoinRecordRows, MaxRecords)}

InitMain ==
    /\ TransformIdle
    /\ db \in Databases
    /\ ext = [pc |-> "connect", conn |-> "none", closes |-> 0,
              tables |-> <<>>, all_data |-> EmptyDict, pending |-> "none",
              outcome |-> "none"]
    /\ plants = NotCalled
    /\ api = NotCalled
    /\ arch = NotCalled

(* extract.py:54, get_db_connection returns a connection *)
MainConnect ==
    /\ ext.pc = "connect"
    /\ ext' = [ext EXCEPT !.pc = "extract", !.conn = "open",
                          !.tables = Tables]
    /\ UNCHANGED <<pipeline, db, plants, api, arch>>

(* extract.py:54, pymssql.connect raises: main is left before the try *)
MainConnectRaises ==
    /\ ext.pc = "connect"
    /\ ext' = [ext EXCEPT !.pc = "exit", !.outcome = "raised"]
    /\ UNCHANGED <<pipeline, db, plants, api, arch>>

(* extract.py:43-46, one iteration of the loop of extract_all_data *)
MainExtractTable ==
    /\ ext.pc = "extract"
    /\ ext.tables # <<>>
    /\ ext' = [ext EXCEPT
                  !.all_data = (Head(ext.tables) :> db[Head(ext.tables)])
                                   @@ ext.all_data,
                  !.tables = Tail(ext.tables)]
    /\ UNCHANGED <<pipeline, db, plants, api, arch>>

MainExtractRaisesNoFinally ==
    /\ ext.pc = "extract"
    /\ ext.tables # <<>>
    /\ ext' = [ext EXCEPT !.pc = "exit", !.pending = "raise",
                          !.outcome = "raised"]
    /\ UNCHANGED <<pipeline, db, plants, api, arch>>

(* extract.py:33-34, pd.read_sql raises: control passes to the finally *)
MainExtractRaises ==
    /\ ext.pc = "extract"
    /\ ext.tables # <<>>
    /\ ext' = [ext EXCEPT !.pc = "finally", !.pending = "raise"]
    /\ UNCHANGED <<pipeline, db, plants, api, arch>>

(* extract.py:48 and 59-63, extract_all_data returns; return all_data *)
MainReturn ==
    /\ ext.pc = "extract"
    /\ ext.tables = <<>>
    /\ ext' = [ext EXCEPT !.pc = "finally", !.pending = "return"]
    /\ UNCHANGED <<pipeline, db, plants, api, arch>>

(* extract.py:65-66, the finally clause, then the pending return or raise *)
MainFinally ==
    /\ ext.pc = "finally"
    /\ ext' = [ext EXCEPT
                  !.pc = "exit",
                  !.conn = "closed",
                  !.closes = ext.closes + 1,
                  !.outcome = IF ext.pending = "return"
                              THEN "returned" ELSE "raised"]
    /\ UNCHANGED <<pipeline, db, plants, api, arch>>

NextMain ==
    \/ MainConnect
    \/ MainConnectRaises
    \/ MainExtractTable
    \/ MainExtractRaises
    \/ MainReturn
    \/ MainFinally

SpecMain == InitMain /\ [][NextMain]_vars

(* ----------------- api_pipeline extract_all_plants --------------------- *)
(* What the plant API answers for an id: a plant, a payload with an        *)
(* 'error' key, or an empty payload. Ids above MaxApiId are unknown to the *)
(* API and answered with an error.                                         *)
MaxApiId == 3
MaxErrors == 2

Responses == {"plant", "error", "empty"}

ResponseOf(id) ==
    IF id \in DOMAIN plants.responses THEN plants.responses[id] ELSE "error"

(* extract.py:27-46, flatten_plant_data of a plant payload *)
flatten_plant_data(id) == [plant_id |-> id]

InitPlants ==
    /\ TransformIdle
    /\ db = NoTables
    /\ ext = NotCalled
    /\ api = NotCalled
    /\ arch = NotCalled
    /\ \E r \in [1..MaxApiId -> Responses], s \in {1, 2}, m \in 1..MaxErrors :
           plants = [pc |-> "loop", responses |-> r, start_id |-> s,
                     max_consecutive_errors |-> m, all_plants |-> <<>>,
                     consecutive_errors |-> 0, plant_id |-> s,
                     fetched |-> <<>>, outcomes |-> <<>>]

Looping ==
    /\ plants.pc = "loop"
    /\ plants.consecutive_errors < plants.max_consecutive_errors

PlantsFetchedKeepsCount ==
    /\ Looping
    /\ ResponseOf(plants.plant_id) = "plant"
    /\ plants' = [plants EXCEPT
                     !.all_plants = Append(plants.all_plants,
                                           flatten_plant_data(plants.plant_id)),
                     !.plant_id = plants.plant_id + 1,
                     !.fetched = Append(plants.fetched, plants.plant_id),
                     !.outcomes = Append(plants.outcomes, "ok")]
    /\ UNCHANGED <<pipeline, db, ext, api, arch>>

(* extract.py:55-59 and 63: the fetch and the flatten succeed *)
PlantsFetched ==
    /\ Looping
    /\ ResponseOf(plants.plant_id) = "plant"
    /\ plants' = [plants EXCEPT
                     !.all_plants = Append(plants.all_plants,
                                           flatten_plant_data(plants.plant_id)),
                     !.consecutive_errors = 0,
                     !.plant_id = plants.plant_id + 1,
                     !.fetched = Append(plants.fetched, plants.plant_id),
                     !.outcomes = Append(plants.outcomes, "ok")]
    /\ UNCHANGED <<pipeline, db, ext, api, arch>>

(* extract.py:14-16 and 60-63: fetch_plant_data raises ValueError *)
PlantsFetchError ==
    /\ Looping
    /\ ResponseOf(plants.plant_id) = "error"
    /\ plants' = [plants EXCEPT
                     !.consecutive_errors = plants.consecutive_errors + 1,
                     !.plant_id = plants.plant_id + 1,
                     !.fetched = Append(plants.fetched, plants.plant_id),
                     !.outcomes = Append(plants.outcomes, "fetch_error")]
    /\ UNCHANGED <<pipeline, db, ext, api, arch>>

(* extract.py:23-25 and 60-63: the fetch returns an empty payload and      *)
(* flatten_plant_data raises ValueError                                    *)
PlantsFlattenError ==
    /\ Looping
    /\ ResponseOf(plants.plant_id) = "empty"
    /\ plants' = [plants EXCEPT
                     !.consecutive_errors = plants.consecutive_errors + 1,
                     !.plant_id = plants.plant_id + 1,
                     !.fetched = Append(plants.fetched, plants.plant_id),
                     !.outcomes = Append(plants.outcomes, "flatten_error")]
    /\ UNCHANGED <<pipeline, db, ext, api, arch>>

(* extract.py:54 and 65-67: the loop condition fails, the frame is built   *)
PlantsReturn ==
    /\ plants.pc = "loop"
    /\ ~(plants.consecutive_errors < plants.max_consecutive_errors)
    /\ plants' = [plants EXCEPT !.pc = "returned"]
    /\ UNCHANGED <<pipeline, db, ext, api, arch>>

NextPlants ==
    \/ PlantsFetched
    \/ PlantsFetchError
    \/ PlantsFlattenError
    \/ PlantsReturn

SpecPlants == InitPlants /\ [][NextPlants]_vars

(* ------------------- clean_outliers on numeric values ------------------ *)
MaxNumericRows == 5

(* Record rows whose temperature and moisture are numbers.                 *)
NumericRecordRows ==
    {RecordRow(1, t, m) : t \in {0, HighSignal}, m \in {0, HighSignal}}
    \cup {RecordRow(2, 0, 0)}

InitNumeric ==
    /\ country_df = <<[country_id |-> 1, country |-> "UK"]>>
    /\ botanist_df = <<[botanist_id |-> 1, botanist_name |-> "Alice"]>>
    /\ location_df = <<[location_id |-> 1, city |-> "Leeds", country_id |-> 1]>>
    /\ plant_df = <<[plant_id |-> 1, common_name |-> "Rose",
                     scientific_name |-> "Rosa", location_id |-> 1],
                    [plant_id |-> 2, common_name |-> "Tulip",
                     scientific_name |-> "Tulipa", location_id |-> NaN]>>
    /\ record_df \in RecordTables(NumericRecordRows, MaxNumericRows)
    /\ caller = "script"
    /\ Start

SpecNumeric == InitNumeric /\ [][NextScript]_vars

(* ----------------------- api_pipeline tables --------------------------- *)
(* The columns last_watered, recording_taken, phone and long are left out: *)
(* they are carried along like email and lat.                              *)
RECURSIVE DropDuplicates(_)
DropDuplicates(df) ==
    IF df = <<>> THEN <<>>
    ELSE LET rest == DropDuplicates(SubSeq(df, 1, Len(df) - 1))
             last == df[Len(df)]
         IN IF \E i \in 1..Len(rest) : rest[i] = last
            THEN rest ELSE Append(rest, last)

Select(df, cols) == [i \in 1..Len(df) |-> Restrict(df[i], cols)]

create_country_table(df) == DropDuplicates(Select(df, {"country"}))

create_botanist_table(df) ==
    DropDuplicates(Select(df, {"botanist_name", "email"}))

create_location_table(df) ==
    DropDuplicates(Select(df, {"city", "lat", "country"}))

create_plant_table(df) ==
    DropDuplicates(Select(df, {"plant_id", "scientific_name", "common_name",
                               "city"}))

create_record_table(df) ==
    Select(df, {"plant_id", "botanist_name", "moisture", "temperature"})

(* ------------------------ api_pipeline load ---------------------------- *)
IsIn(v, df, col) == \E i \in 1..Len(df) : df[i][col] = v

MaxOf(S) == CHOOSE x \in S : \A y \in S : y <= x

(* INSERT into a table with an IDENTITY column: the rows get the ids that  *)
(* follow the largest id of the table.                                     *)
InsertIdentity(table, rows, idcol) ==
    LET base == IF table = <<>> THEN 0
                ELSE MaxOf({table[i][idcol] : i \in 1..Len(table)})
    IN table \o [i \in 1..Len(rows) |-> rows[i] @@ (idcol :> base + i)]

get_country_lookup(database) ==
    Select(database.Country, {"country_id", "country"})
get_location_lookup(database) ==
    Select(database.Location, {"location_id", "city"})
get_botanist_lookup(database) ==
    Select(database.Botanist, {"botanist_id", "botanist_name"})

(* df[~df[col].isin(existing[col])] *)
NotIn(df, existing, col) ==
    SelectSeq(df, LAMBDA row : ~IsIn(row[col], existing, col))

Unchanged(database) == [db |-> database, count |-> 0]

load_country_tableNoFilter(df, database) ==
    IF df = <<>> THEN Unchanged(database)
    ELSE [db |-> [database EXCEPT
                    !.Country = InsertIdentity(@, df, "country_id")],
          count |-> Len(df)]

load_country_table(df, database) ==
    LET existing == get_country_lookup(database)
        new == IF existing # <<>> THEN NotIn(df, existing, "country") ELSE df
    IN IF new = <<>> THEN Unchanged(database)
       ELSE [db |-> [database EXCEPT
                       !.Country = InsertIdentity(@, new, "country_id")],
             count |-> Len(new)]

load_botanist_table(df, database) ==
    LET existing == get_botanist_lookup(database)
        new == IF existing # <<>> THEN NotIn(df, existing, "botanist_name")
               ELSE df
    IN IF new = <<>> THEN Unchanged(database)
       ELSE [db |-> [database EXCEPT
                       !.Botanist = InsertIdentity(@, new, "botanist_id")],
             count |-> Len(new)]

load_location_table(df, database) ==
    LET existing == get_location_lookup(database)
        new == IF existing # <<>> THEN NotIn(df, existing, "city") ELSE df
        merged == merge(new, get_country_lookup(database), "country",
                        [country_id |-> NaN])
        rows == Select(merged, {"city", "lat", "country_id"})
    IN IF new = <<>> THEN Unchanged(database)
       ELSE [db |-> [database EXCEPT
                       !.Location = InsertIdentity(@, rows, "location_id")],
             count |-> Len(rows)]

load_plant_table(df, database) ==
    LET existing == Select(database.Plant, {"plant_id"})
        new == IF existing # <<>> THEN NotIn(df, existing, "plant_id") ELSE df
        merged == merge(new, get_location_lookup(database), "city",
                        [location_id |-> NaN])
        rows == Select(merged, {"plant_id", "scientific_name", "common_name",
                                "location_id"})
    IN IF new = <<>> THEN Unchanged(database)
       ELSE [db |-> [database EXCEPT !.Plant = @ \o rows],
             count |-> Len(rows)]

load_record_table(df, database) ==
    LET merged == merge(df, get_botanist_lookup(database), "botanist_name",
                        [botanist_id |-> NaN])
        valid == SelectSeq(merged, LAMBDA row :
                     row.plant_id # NaN /\ row.botanist_id # NaN)
        rows == Select(valid, {"plant_id", "moisture", "temperature",
                               "botanist_id"})
    IN IF df = <<>> THEN Unchanged(database)
       ELSE IF rows = <<>> THEN Unchanged(database)
       ELSE [db |-> [database EXCEPT !.Record = @ \o rows],
             count |-> Len(rows)]

(* ----------------------- api_pipeline handler -------------------------- *)
MaxBatchRows == 2
MaxSyncRuns == 2

ApiRow(id, plant, botanist, email, city, lat, country) ==
    [plant_id |-> id, common_name |-> plant, scientific_name |-> plant,
     botanist_name |-> botanist, email |-> email, city |-> city, lat |-> lat,
     country |-> country, temperature |-> id, moisture |-> id]

ApiRows ==
    {ApiRow(1, "Rose", "Alice", "a@x", "Leeds", 1, "UK"),
     ApiRow(2, "Tulip", "Alice", "b@x", "Leeds", 2, "UK"),
     ApiRow(2, "Tulip", "Bob", "c@x", "York", 1, "UK"),
     ApiRow(3, "Fern", "Bob", "c@x", "Paris", 1, "France")}

(* extract_all_plants appends one row per plant id, ids increasing.        *)
Batches ==
    {df \in SeqsUpTo(ApiRows, MaxBatchRows) :
        \A i \in 1..Len(df) : \A j \in 1..Len(df) :
            i < j => df[i].plant_id < df[j].plant_id}

MasterOrderLocationFirst == <<"Location", "Country", "Plant", "Botanist">>

MasterOrder == <<"Country", "Location", "Plant", "Botanist">>

CountKey(table) ==
    CASE table = "Country" -> "countries"
      [] table = "Location" -> "locations"
      [] table = "Plant" -> "plants"
      [] table = "Botanist" -> "botanists"

InitApi ==
    /\ TransformIdle
    /\ db = NoTables
    /\ ext = NotCalled
    /\ plants = NotCalled
    /\ arch = NotCalled
    /\ \E df \in Batches :
          api = [pc |-> "connect", df |-> df, run |-> 1, before |-> NoTables,
                 syncs |-> 0, todo |-> <<>>, country_df |-> <<>>,
                 botanist_df |-> <<>>,
                 location_df |-> <<>>, plant_df |-> <<>>, counts |-> EmptyDict,
                 records_loaded |-> NaN, statusCode |-> 0]

ApiConnect ==
    /\ api.pc = "connect"
    /\ api' = [api EXCEPT !.pc = "sync"]
    /\ UNCHANGED <<pipeline, db, ext, plants, arch>>

ApiConnectRaises ==
    /\ api.pc = "connect"
    /\ api' = [api EXCEPT !.pc = "raised"]
    /\ UNCHANGED <<pipeline, db, ext, plants, arch>>

(* A frame built from no rows has no columns: df[['country']] raises.      *)
ApiSync ==
    /\ api.pc = "sync"
    /\ IF api.df = <<>>
       THEN api' = [api EXCEPT !.pc = "raised"]
       ELSE api' = [api EXCEPT !.pc = "master",
                               !.todo = MasterOrder,
                               !.country_df = create_country_table(api.df),
                               !.botanist_df = create_botanist_table(api.df),
                               !.location_df = create_location_table(api.df),
                               !.plant_df = create_plant_table(api.df)]
    /\ UNCHANGED <<pipeline, db, ext, plants, arch>>

LoadMaster(table, frame, database) ==
    CASE table = "Country" -> load_country_table(frame.country_df, database)
      [] table = "Location" -> load_location_table(frame.location_df, database)
      [] table = "Plant" -> load_plant_table(frame.plant_df, database)
      [] table = "Botanist" -> load_botanist_table(frame.botanist_df, database)

ApiLoadMaster ==
    /\ api.pc = "master"
    /\ LET table == Head(api.todo)
           loaded == LoadMaster(table, api, db)
       IN /\ db' = loaded.db
          /\ api' = [api EXCEPT
                       !.todo = Tail(@),
                       !.counts = @ @@ (CountKey(table) :> loaded.count),
                       !.syncs = IF Tail(api.todo) = <<>> THEN @ + 1 ELSE @,
                       !.pc = IF Tail(api.todo) = <<>> THEN "record"
                              ELSE "master"]
    /\ UNCHANGED <<pipeline, ext, plants, arch>>

ApiLoadRecord ==
    /\ api.pc = "record"
    /\ LET loaded == load_record_table(create_record_table(api.df), db)
       IN /\ db' = loaded.db
          /\ api' = [api EXCEPT !.records_loaded = loaded.count,
                                !.pc = "return"]
    /\ UNCHANGED <<pipeline, ext, plants, arch>>

ApiReturn ==
    /\ api.pc = "return"
    /\ api' = [api EXCEPT !.pc = "done", !.statusCode = 200]
    /\ UNCHANGED <<pipeline, db, ext, plants, arch>>

ApiExcept ==
    /\ api.pc = "raised"
    /\ api' = [api EXCEPT !.pc = "done", !.statusCode = 500]
    /\ UNCHANGED <<pipeline, db, ext, plants, arch>>

(* The next scheduled invocation, with the same extracted data.            *)
ApiRerun ==
    /\ api.pc = "done"
    /\ api.run < MaxSyncRuns
    /\ api' = [api EXCEPT !.pc = "connect", !.run = @ + 1, !.before = db,
                          !.todo = <<>>, !.counts = EmptyDict,
                          !.records_loaded = NaN, !.statusCode = 0]
    /\ UNCHANGED <<pipeline, db, ext, plants, arch>>

NextApi ==
    \/ ApiConnect
    \/ ApiConnectRaises
    \/ ApiSync
    \/ ApiLoadMaster
    \/ ApiLoadRecord
    \/ ApiReturn
    \/ ApiExcept
    \/ ApiRerun

SpecApi == InitApi /\ [][NextApi]_vars

(* ----------------------- archive_pipeline handler ---------------------- *)
(* The database the api_pipeline handler leaves after loading a batch.     *)
ApiDatabase(df) ==
    IF df = <<>> THEN NoTables
    ELSE LET c == load_country_table(create_country_table(df), NoTables).db
             l == load_location_table(create_location_table(df), c).db
             p == load_plant_table(create_plant_table(df), l).db
             b == load_botanist_table(create_botanist_table(df), p).db
         IN load_record_table(create_record_table(df), b).db

InitArchive ==
    /\ NoInputs
    /\ caller = "handler"
    /\ pc = "idle"
    /\ combined_df = <<>>
    /\ cleaned_df = <<>>
    /\ keys = <<>>
    /\ plant_id = 0
    /\ group = <<>>
    /\ temp_outliers = 0
    /\ cleaned_dfs = <<>>
    /\ outlier_counts = EmptyDict
    /\ final_avg_df = <<>>
    /\ error = "none"
    /\ statusCode = 0
    /\ final_columns = <<>>
    /\ run = 1
    /\ previous = <<>>
    /\ ext = NotCalled
    /\ plants = NotCalled
    /\ \E stored \in Batches :
          /\ db = ApiDatabase(stored)
          /\ arch = [pc |-> "connect", tables |-> <<>>, all_data |-> EmptyDict,
                     before |-> ApiDatabase(stored).Record]
    /\ \E df \in {b \in Batches : Len(b) = 1} :
          api = [pc |-> "connect", df |-> df, run |-> 1, before |-> db,
                 syncs |-> 0, todo |-> <<>>, country_df |-> <<>>,
                 botanist_df |-> <<>>, location_df |-> <<>>,
                 plant_df |-> <<>>, counts |-> EmptyDict,
                 records_loaded |-> NaN, statusCode |-> 0]

(* main.py:33, get_db_connection returns *)
ArchiveConnect ==
    /\ arch.pc = "connect"
    /\ arch' = [arch EXCEPT !.pc = "extract", !.tables = Tables]
    /\ UNCHANGED <<pipeline, db, ext, plants, api>>

(* main.py:33, get_db_connection raises inside the try *)
ArchiveConnectRaises ==
    /\ arch.pc = "connect"
    /\ arch' = [arch EXCEPT !.pc = "failed"]
    /\ error' = "OperationalError"
    /\ pc' = "raised"
    /\ UNCHANGED <<history, inputs, combined_df, locals, cleaned_df,
                   final_avg_df, final_columns, statusCode, db, ext, plants,
                   api>>

(* main.py:37, one query of extract_all_data *)
ArchiveExtractTable ==
    /\ arch.pc = "extract"
    /\ arch.tables # <<>>
    /\ arch' = [arch EXCEPT
                   !.all_data = (Head(arch.tables) :> db[Head(arch.tables)])
                                    @@ arch.all_data,
                   !.tables = Tail(arch.tables)]
    /\ UNCHANGED <<pipeline, db, ext, plants, api>>

(* main.py:37, a query of extract_all_data raises *)
ArchiveExtractRaises ==
    /\ arch.pc = "extract"
    /\ arch.tables # <<>>
    /\ arch' = [arch EXCEPT !.pc = "failed"]
    /\ error' = "DatabaseError"
    /\ pc' = "raised"
    /\ UNCHANGED <<history, inputs, combined_df, locals, cleaned_df,
                   final_avg_df, final_columns, statusCode, db, ext, plants,
                   api>>

(* main.py:41-45, the five frames of the transform *)
ArchiveTransform ==
    /\ arch.pc = "extract"
    /\ arch.tables = <<>>
    /\ arch' = [arch EXCEPT !.pc = "transform"]
    /\ country_df' = arch.all_data["Country"]
    /\ location_df' = arch.all_data["Location"]
    /\ botanist_df' = arch.all_data["Botanist"]
    /\ plant_df' = arch.all_data["Plant"]
    /\ record_df' = arch.all_data["Record"]
    /\ pc' = "combine"
    /\ UNCHANGED <<history, caller, combined_df, locals, cleaned_df,
                   final_avg_df, final_columns, error, statusCode, db, ext,
                   plants, api>>

NextArchive ==
    \/ ArchiveConnect
    \/ ArchiveConnectRaises
    \/ ArchiveExtractTable
    \/ ArchiveExtractRaises
    \/ ArchiveTransform
    \/ CombineTables
    \/ CleanOutliersBegin
    \/ CleanTemperature
    \/ CleanMoisture
    \/ CleanOutliersReturn
    \/ HandlerCalculateAverages
    \/ HandlerExcept
    \/ ApiConnect
    \/ ApiConnectRaises
    \/ ApiSync
    \/ ApiLoadMaster
    \/ ApiLoadRecord
    \/ ApiReturn
    \/ ApiExcept

SpecArchive == InitArchive /\ [][NextArchive]_vars

(* ======================= properties of the pipeline ==================== *)
Finished == pc \in {"done", "raised", "returned"}

PlantIdsOf(df) == {df[i].plant_id : i \in 1..Len(df)}

(* C1: for a Record table with zero rows, combine_tables, clean_outliers   *)
(* and calculate_averages each return an empty table, clean_outliers       *)
(* returns an empty outlier-count map, and none of the three raises.       *)
C1_EmptyFactTable ==
    (record_df = <<>> /\ pc # "combine") =>
        /\ combined_df = <<>>
        /\ error = "none"
        /\ (Finished => pc = "done" /\ cleaned_df = <<>>
                        /\ outlier_counts = EmptyDict /\ final_avg_df = <<>>)

(* C2: calculate_averages called with exactly two arguments, the cleaned   *)
(* table and the outlier-count map, as the handler calls it, does not fail *)
(* and returns the summary table.                                          *)
C2_TwoArgumentCall ==
    (caller = "handler" /\ cleaned_df # <<>> /\ Finished) =>
        /\ error = "none"
        /\ final_avg_df = calculate_averages(combined_df, cleaned_df,
                                             outlier_counts)

(* C3: the number of rows returned by calculate_averages equals the number *)
(* of distinct plant_id values of the cleaned table, also when rows have   *)
(* no matching Plant row.                                                  *)
C3_RowPerPlant ==
    pc = "done" => Len(final_avg_df) = Cardinality(PlantIdsOf(cleaned_df))

(* ----------------------- clean_outliers, per plant ---------------------- *)
OriginalGroup(e) == GroupOf(combined_df, e)

Lower8(rows, col) ==
    LowerBound8(Quantile4(Column(rows, col), 1), Quantile4(Column(rows, col), 3))

Upper8(rows, col) ==
    UpperBound8(Quantile4(Column(rows, col), 1), Quantile4(Column(rows, col), 3))

(* x is a number strictly below lower8 / 8 or strictly above upper8 / 8 *)
StrictlyOutside(x, lower8, upper8) ==
    /\ x # NaN
    /\ lower8 # NaN
    /\ (8 * x < lower8 \/ 8 * x > upper8)

Within(x, lower8, upper8) ==
    /\ x # NaN
    /\ lower8 # NaN
    /\ lower8 <= 8 * x
    /\ 8 * x <= upper8

TempSurvivors(e) ==
    LET lo == Lower8(OriginalGroup(e), "temperature")
        hi == Upper8(OriginalGroup(e), "temperature")
    IN SelectSeq(OriginalGroup(e), LAMBDA row : Within(row.temperature, lo, hi))

Count(rows, P(_)) == Cardinality({i \in 1..Len(rows) : P(rows[i])})

CleanedProduced ==
    \/ pc \in {"averages", "done"}
    \/ pc \in {"raised", "returned"} /\ error = "TypeError"

PositionOf(e) == Cardinality({d \in DOMAIN outlier_counts : d <= e})

(* C4 as stated: after the temperature stage of plant e the rows removed   *)
(* are exactly the rows strictly below Q1 - 1.5 IQR or strictly above      *)
(* Q3 + 1.5 IQR, and the temperature count is their number.                *)
C4_RemovedAreStrictOutliers ==
    pc = "moisture" =>
        LET orig == OriginalGroup(plant_id)
            lo == Lower8(orig, "temperature")
            hi == Upper8(orig, "temperature")
            Out(row) == StrictlyOutside(row.temperature, lo, hi)
            Kept(row) == ~Out(row)
        IN /\ group = SelectSeq(orig, Kept)
           /\ temp_outliers = Count(orig, Out)

(* C4 amended: the rows removed are exactly the rows whose temperature is  *)
(* missing or strictly outside the bounds (quartiles over the non-missing  *)
(* temperatures; a value equal to a bound is kept), and the temperature    *)
(* count, also as stored in outlier_counts, is their number.               *)
C4_RemovedAreOutliersOrMissing ==
    /\ pc = "moisture" =>
        LET orig == OriginalGroup(plant_id)
            lo == Lower8(orig, "temperature")
            hi == Upper8(orig, "temperature")
            Out(row) == \/ row.temperature = NaN
                        \/ StrictlyOutside(row.temperature, lo, hi)
            Kept(row) == ~Out(row)
        IN /\ group = SelectSeq(orig, Kept)
           /\ temp_outliers = Count(orig, Out)
    /\ \A e \in DOMAIN outlier_counts :
        LET orig == OriginalGroup(e)
            lo == Lower8(orig, "temperature")
            hi == Upper8(orig, "temperature")
            Out(row) == \/ row.temperature = NaN
                        \/ StrictlyOutside(row.temperature, lo, hi)
        IN outlier_counts[e].temperature = Count(orig, Out)

(* a numeric row was removed as an outlier and the rest was kept *)
C4_Witness ==
    /\ pc = "moisture"
    /\ temp_outliers >= 1
    /\ group # <<>>
    /\ \A i \in 1..Len(OriginalGroup(plant_id)) :
          OriginalGroup(plant_id)[i].temperature # NaN

(* C5: for every plant with at least 4 input rows, every row of the plant  *)
(* in the cleaned table has a temperature inside the bounds computed on    *)
(* the plant's original temperatures.                                      *)
C5_CleanedWithinOriginalBounds ==
    CleanedProduced =>
        \A e \in PlantIdsOf(combined_df) :
            Len(OriginalGroup(e)) >= 4 =>
                LET lo == Lower8(OriginalGroup(e), "temperature")
                    hi == Upper8(OriginalGroup(e), "temperature")
                IN \A i \in 1..Len(cleaned_df) :
                       cleaned_df[i].plant_id = e =>
                           Within(cleaned_df[i].temperature, lo, hi)

C5_Witness ==
    /\ CleanedProduced
    /\ \E e \in PlantIdsOf(combined_df) :
          /\ Len(OriginalGroup(e)) >= 4
          /\ outlier_counts[e].temperature >= 1
          /\ \E i \in 1..Len(cleaned_df) : cleaned_df[i].plant_id = e

(* C6: the temperature count of a plant plus the number of its rows that   *)
(* survive the temperature stage is the number of its input rows.          *)
C6_TemperatureCountBalance ==
    /\ pc = "moisture" =>
          temp_outliers + Len(group) = Len(OriginalGroup(plant_id))
    /\ \A e \in DOMAIN outlier_counts :
          outlier_counts[e].temperature + Len(TempSurvivors(e))
              = Len(OriginalGroup(e))

C6_Witness ==
    /\ pc = "moisture"
    /\ temp_outliers >= 1
    /\ Len(group) >= 2

(* C7: the moisture stage of a plant works on the temperature survivors:   *)
(* its bounds come from their moisture values, the moisture count is the   *)
(* number of survivors outside these bounds and the plant's cleaned rows   *)
(* are the survivors inside them.                                          *)
C7_MoistureOnSurvivors ==
    \A e \in DOMAIN outlier_counts :
        LET surv == TempSurvivors(e)
            lo == Lower8(surv, "moisture")
            hi == Upper8(surv, "moisture")
            kept == SelectSeq(surv, LAMBDA row : Within(row.moisture, lo, hi))
        IN /\ outlier_counts[e].moisture = Len(surv) - Len(kept)
           /\ cleaned_dfs[PositionOf(e)] = kept

(* a row removed for temperature would have moved the moisture bounds: a   *)
(* cleaned row lies outside the bounds of the original moisture values     *)
C7_Witness ==
    \E e \in DOMAIN outlier_counts :
        /\ outlier_counts[e].temperature >= 1
        /\ \E i \in 1..Len(cleaned_dfs[PositionOf(e)]) :
              ~Within(cleaned_dfs[PositionOf(e)][i].moisture,
                      Lower8(OriginalGroup(e), "moisture"),
                      Upper8(OriginalGroup(e), "moisture"))

(* C8: the moisture count of a plant is at most the number of its input    *)
(* rows minus its temperature count.                                       *)
C8_MoistureCountBound ==
    \A e \in DOMAIN outlier_counts :
        outlier_counts[e].moisture
            <= Len(OriginalGroup(e)) - outlier_counts[e].temperature

(* rows were removed at both stages of one plant *)
C8_Witness ==
    \E e \in DOMAIN outlier_counts :
        /\ outlier_counts[e].temperature >= 1
        /\ outlier_counts[e].moisture >= 1

(* --------------------------- combine_tables ---------------------------- *)
UniqueKeys(df, key) ==
    \A i, j \in 1..Len(df) : df[i][key] = df[j][key] => i = j

AllKeysUnique ==
    /\ UniqueKeys(plant_df, "plant_id")
    /\ UniqueKeys(location_df, "location_id")
    /\ UniqueKeys(country_df, "country_id")
    /\ UniqueKeys(botanist_df, "botanist_id")

HasKey(df, key, v) == \E i \in 1..Len(df) : df[i][key] = v

(* C9 as stated: whatever the dimension tables are, the combined table has *)
(* exactly as many rows as the Record table.                               *)
C9_RowCountPreserved ==
    pc # "combine" => Len(combined_df) = Len(record_df)

(* C9 amended: when no key value occurs in more than one row of a          *)
(* dimension table, the combined table has exactly the rows of the Record  *)
(* table, one for one and in order.                                        *)
C9_RowCountUniqueKeys ==
    (pc # "combine" /\ AllKeysUnique) =>
        /\ Len(combined_df) = Len(record_df)
        /\ \A i \in 1..Len(combined_df) :
              Restrict(combined_df[i], RecordColumns) = record_df[i]

(* every dimension table is filled with distinct keys, one Record row      *)
(* finds its plant and another does not *)
C9_Witness ==
    /\ pc # "combine"
    /\ AllKeysUnique
    /\ Len(plant_df) = 2 /\ location_df # <<>>
    /\ country_df # <<>> /\ botanist_df # <<>>
    /\ \E i, j \in 1..Len(record_df) :
          /\ HasKey(plant_df, "plant_id", record_df[i].plant_id)
          /\ ~HasKey(plant_df, "plant_id", record_df[j].plant_id)

(* The columns of dimension dim in row r come from a row of dim with r's   *)
(* key, or are null when dim has no such row.                              *)
Provenance(r, dim, key, nulls) ==
    IF HasKey(dim, key, r[key])
    THEN \E i \in 1..Len(dim) :
            dim[i][key] = r[key] /\ \A f \in DOMAIN dim[i] : r[f] = dim[i][f]
    ELSE \A f \in DOMAIN nulls : r[f] = nulls[f]

(* C10: the joins are left joins in the order Plant, Location, Country,    *)
(* Botanist: every Record row is kept, in order, and each dimension's      *)
(* columns are those of the row matching the key the earlier joins gave,   *)
(* or null when there is no such row.                                      *)
C10_LeftJoinChain ==
    pc # "combine" =>
        /\ \A i \in 1..Len(record_df) :
              \E j \in 1..Len(combined_df) :
                  Restrict(combined_df[j], RecordColumns) = record_df[i]
        /\ \A j \in 1..Len(combined_df) :
              /\ Provenance(combined_df[j], plant_df, "plant_id", PlantNulls)
              /\ Provenance(combined_df[j], location_df, "location_id",
                            LocationNulls)
              /\ Provenance(combined_df[j], country_df, "country_id",
                            CountryNulls)
              /\ Provenance(combined_df[j], botanist_df, "botanist_id",
                            BotanistNulls)
              /\ j > 1 => combined_df[j - 1].record_id <= combined_df[j].record_id

(* one row is kept with null plant columns, another is resolved through    *)
(* the whole chain *)
C10_Witness ==
    /\ pc # "combine"
    /\ \E j, k \in 1..Len(combined_df) :
          /\ combined_df[j].common_name = NA
          /\ combined_df[j].city = NA
          /\ combined_df[k].common_name # NA
          /\ combined_df[k].country # NA
          /\ combined_df[k].botanist_name # NA

(* C11: in the summary returned by calculate_averages, a row whose plant   *)
(* has no entry in the outlier-count map, or whose entry lacks the signal  *)
(* key, carries 0 for that signal; a row whose plant has the key carries   *)
(* exactly the stored count.                                               *)
HasCount(counts, pid, signal) ==
    pid \in DOMAIN counts /\ signal \in DOMAIN counts[pid]

C11_OutlierColumnsFromMap ==
    pc = "done" =>
        \A i \in 1..Len(final_avg_df) :
            LET row == final_avg_df[i]
                pid == row.plant_id
            IN /\ row.temperature_outliers =
                     IF HasCount(outlier_counts, pid, "temperature")
                     THEN outlier_counts[pid].temperature ELSE 0
               /\ row.moisture_outliers =
                     IF HasCount(outlier_counts, pid, "moisture")
                     THEN outlier_counts[pid].moisture ELSE 0

(* A summary with one plant absent from the map and one plant whose entry  *)
(* holds one signal key only.                                              *)
C11_Witness ==
    /\ pc = "done"
    /\ \E i \in 1..Len(final_avg_df) :
           final_avg_df[i].plant_id \notin DOMAIN outlier_counts
    /\ \E i \in 1..Len(final_avg_df) :
           /\ HasCount(outlier_counts, final_avg_df[i].plant_id, "temperature")
           /\ ~HasCount(outlier_counts, final_avg_df[i].plant_id, "moisture")
           /\ final_avg_df[i].temperature_outliers = 1

(* C12: per-plant filtering is independent. When clean_outliers has run on *)
(* two tables that hold the same rows for plant 1 and differ only in other *)
(* plants' rows, the cleaned rows of plant 1 and outlier_counts[1] of the  *)
(* two runs are identical.                                                 *)
SecondRunCleaned ==
    /\ run = 2
    /\ pc \in {"averages", "done"}
    /\ previous.error = "none"

C12_PerPlantIndependence ==
    SecondRunCleaned =>
        /\ GroupOf(cleaned_df, 1) = GroupOf(previous.cleaned_df, 1)
        /\ (1 \in DOMAIN outlier_counts) = (1 \in DOMAIN previous.outlier_counts)
        /\ 1 \in DOMAIN outlier_counts =>
               outlier_counts[1] = previous.outlier_counts[1]

(* Two runs that share the rows of plant 1 while the second table holds    *)
(* other rows for plant 2, among them a high temperature.                  *)
C12_Witness ==
    /\ SecondRunCleaned
    /\ GroupOf(record_df, 1) # <<>>
    /\ GroupOf(record_df, 2) # GroupOf(previous.record_df, 2)
    /\ \E i \in 1..Len(record_df) :
           record_df[i].plant_id = 2 /\ record_df[i].temperature = HighSignal

(* C13: running combine_tables, clean_outliers and calculate_averages a    *)
(* second time on the same five tables gives the same cleaned table, the   *)
(* same outlier-count map and the same summary table (same rows, same      *)
(* order), or the same exception: nothing survives from the first run.     *)
C13_SecondRunIdentical ==
    (run = 2 /\ pc \in {"done", "raised"} /\ record_df = previous.record_df)
        => Outputs = previous

(* A second run on the same tables in which a row was removed and a        *)
(* summary was produced.                                                   *)
C13_Witness ==
    /\ run = 2
    /\ pc = "done"
    /\ record_df = previous.record_df
    /\ Len(cleaned_df) < Len(record_df)
    /\ Len(final_avg_df) >= 1

(* C14: the three functions leave their arguments unchanged. A step of     *)
(* combine_tables keeps the five input tables, a step of clean_outliers    *)
(* keeps the combined table, and a step of calculate_averages keeps the    *)
(* combined table, the cleaned table and the outlier-count map.            *)
InputTables ==
    <<country_df, botanist_df, location_df, plant_df, record_df>>

C14_ArgumentsUnchanged ==
    [][/\ pc = "combine" => InputTables' = InputTables
       /\ pc \in {"clean", "temperature", "moisture", "concat"} =>
              combined_df' = combined_df
       /\ pc = "averages" =>
              /\ combined_df' = combined_df
              /\ cleaned_df' = cleaned_df
              /\ outlier_counts' = outlier_counts]_vars

(* All three functions have returned, rows were removed on the way, and    *)
(* the summary reads counts from a non-empty map.                          *)
C14_Witness ==
    /\ pc = "done"
    /\ Len(cleaned_df) < Len(combined_df)
    /\ final_avg_df # <<>>
    /\ DOMAIN outlier_counts # {}
    /\ Len(combined_df) = Len(record_df)

(* C15: for the single plant 1 with temperatures 20, 21, 22, 50 and 19 the *)
(* quartiles are Q1 = 20 and Q3 = 22, the IQR is 2 and the bounds are 17   *)
(* and 25; the temperature stage removes exactly the row with 50,          *)
(* outlier_counts[1]['temperature'] is 1 and the mean temperature of the   *)
(* four remaining rows is 20.5.                                            *)
ScenarioTemperatures == Column(GroupOf(combined_df, 1), "temperature")

WithoutFifty(rows) ==
    SelectSeq(rows, LAMBDA row : row.temperature # 50 * SignalResolution)

C15_OutlierTestScenario ==
    /\ pc # "combine" =>
           LET q1 == Quantile4(ScenarioTemperatures, 1)
               q3 == Quantile4(ScenarioTemperatures, 3)
           IN /\ q1 = 4 * 20 * SignalResolution
              /\ q3 = 4 * 22 * SignalResolution
              /\ q3 - q1 = 4 * 2 * SignalResolution
              /\ LowerBound8(q1, q3) = 8 * 17 * SignalResolution
              /\ UpperBound8(q1, q3) = 8 * 25 * SignalResolution
    /\ pc = "moisture" =>
           /\ group = WithoutFifty(combined_df)
           /\ Len(group) = 4
           /\ temp_outliers = 1
    /\ pc \in {"averages", "done"} =>
           /\ outlier_counts[1].temperature = 1
           /\ cleaned_df = WithoutFifty(combined_df)
    /\ pc = "done" =>
           /\ Len(final_avg_df) = 1
           /\ final_avg_df[1].avg_temperature = 2050

(* The run is complete, on a table whose first row is the reading of 50.   *)
C15_Witness ==
    /\ pc = "done"
    /\ record_df[1].temperature = 50 * SignalResolution
    /\ Len(cleaned_df) = 4
    /\ outlier_counts[1].temperature = 1

(* C16: for an input with a single plant and a single row, clean_outliers  *)
(* followed by calculate_averages yields one summary row whose             *)
(* avg_temperature and avg_moisture are the row's temperature and moisture *)
(* rounded to 2 decimal places, with both outlier counts 0.                *)
IsRoundedTo2(avg100, x) ==
    LET d == avg100 * SignalResolution - 100 * x
    IN 2 * (IF d < 0 THEN -d ELSE d) <= SignalResolution

C16_SingleRowRoundTrip ==
    (pc = "done" /\ Len(record_df) = 1) =>
        /\ Len(final_avg_df) = 1
        /\ IsRoundedTo2(final_avg_df[1].avg_temperature,
                        record_df[1].temperature)
        /\ IsRoundedTo2(final_avg_df[1].avg_moisture, record_df[1].moisture)
        /\ final_avg_df[1].temperature_outliers = 0
        /\ final_avg_df[1].moisture_outliers = 0

(* C17: for a plant with 1, 2 or 3 rows clean_outliers does not raise. The *)
(* quartiles of its numeric values are numbers and the IQR is not          *)
(* negative, the plant gets an entry in the outlier-count map and its      *)
(* surviving rows are in the cleaned table.                                *)
SmallPlants ==
    {e \in PlantIdsOf(combined_df) \ {NaN} : Len(OriginalGroup(e)) \in 1..3}

QuartilesDefined(values) ==
    NotNaN(values) # <<>> =>
        /\ Quantile4(values, 1) # NaN
        /\ Quantile4(values, 3) # NaN
        /\ Quantile4(values, 3) - Quantile4(values, 1) >= 0

Survivors(e) ==
    LET surv == TempSurvivors(e)
        lo == Lower8(surv, "moisture")
        hi == Upper8(surv, "moisture")
    IN SelectSeq(surv, LAMBDA row : Within(row.moisture, lo, hi))

C18_MapShape ==
    pc \in {"averages", "done"} =>
        /\ DOMAIN outlier_counts = PlantIdsOf(combined_df)
        /\ \A e \in DOMAIN outlier_counts :
               /\ DOMAIN outlier_counts[e] = {"temperature", "moisture"}
               /\ outlier_counts[e].temperature \in Nat
               /\ outlier_counts[e].moisture \in Nat

(* A map returned for two plants, one of them with a removed row.          *)
C18_Witness ==
    /\ pc = "averages"
    /\ DOMAIN outlier_counts = {1, 2}
    /\ outlier_counts[1].temperature = 1
    /\ outlier_counts[2].temperature = 0

(* C19: when a required column is absent the operation raises at once and  *)
(* returns no table. A step of combine_tables on tables without a join key *)
(* raises KeyError and assigns no combined table; a step of clean_outliers *)
(* that needs plant_id, temperature or moisture and does not find it       *)
(* raises KeyError, and no cleaned table is ever returned from such a      *)
(* frame; a step of calculate_averages on a frame without plant_id,        *)
(* common_name, scientific_name, temperature or moisture raises KeyError   *)
(* and assigns no summary.                                                 *)
Absent(df, c) == df # <<>> /\ c \notin DOMAIN df[1]

RaisesKeyError == pc' = "raised" /\ error' = "KeyError"

C19_AbsentColumnRaises ==
    [][/\ (pc = "combine" /\ CombineKeyError(country_df, botanist_df,
                                location_df, plant_df, record_df)) =>
              (RaisesKeyError /\ combined_df' = <<>>)
       /\ (pc = "clean" /\ Absent(combined_df, "plant_id")) => RaisesKeyError
       /\ (pc = "temperature" /\ Absent(combined_df, "temperature")) =>
              RaisesKeyError
       /\ (pc = "moisture" /\ Absent(combined_df, "moisture")) =>
              RaisesKeyError
       /\ (\E c \in {"plant_id", "temperature", "moisture"} :
               Absent(combined_df, c)) =>
              (pc' \notin {"concat", "averages", "done"}
               /\ cleaned_df' = <<>>)
       /\ (pc = "averages" /\
             \E c \in {"plant_id", "common_name", "scientific_name",
                        "temperature", "moisture"} : Absent(cleaned_df, c))
              => (RaisesKeyError /\ final_avg_df' = <<>>)]_vars

(* clean_outliers has raised in the moisture stage of its first group, on  *)
(* a frame without the moisture column.                                    *)
C19_Witness ==
    /\ pc = "raised"
    /\ error = "KeyError"
    /\ Absent(combined_df, "moisture")
    /\ cleaned_dfs = <<>>
    /\ cleaned_df = <<>>

(* C20: the columns of the table returned by calculate_averages are, in    *)
(* this order, plant_id, common_name, scientific_name, avg_temperature,    *)
(* avg_moisture, temperature_outliers, moisture_outliers, and every row    *)
(* has a value under each of them.                                         *)
C20_SummaryColumnOrder ==
    pc = "done" =>
        /\ final_columns =
               <<"plant_id", "common_name", "scientific_name",
                 "avg_temperature", "avg_moisture",
                 "temperature_outliers", "moisture_outliers">>
        /\ \A i \in 1..Len(final_avg_df) :
               DOMAIN final_avg_df[i] =
                   {final_columns[k] : k \in 1..Len(final_columns)}

(* A summary of two plants has been returned.                              *)
C20_Witness ==
    /\ pc = "done"
    /\ Len(final_avg_df) = 2
    /\ Len(final_columns) = 7

(* C21: extract.main closes the connection exactly once on every path      *)
(* after the connection was opened. When extract_all_data returned, main   *)
(* returns the five tables as read; when extract_all_data raised, the      *)
(* exception leaves main. The connection is open and not yet closed while  *)
(* the tables are read.                                                    *)
C21_ClosedExactlyOnce ==
    /\ ext.pc \in {"extract", "finally"} =>
           (ext.conn = "open" /\ ext.closes = 0)
    /\ (ext.pc = "exit" /\ ext.conn # "none") =>
           /\ ext.conn = "closed"
           /\ ext.closes = 1
           /\ ext.pending = "return" =>
                  /\ ext.outcome = "returned"
                  /\ ext.all_data = db
           /\ ext.pending = "raise" => ext.outcome = "raised"

(* main has raised after reading two tables, the connection closed once.   *)
C21_Witness ==
    /\ ext.pc = "exit"
    /\ ext.outcome = "raised"
    /\ DOMAIN ext.all_data = {"Country", "Location"}
    /\ ext.closes = 1

(* ------------------------- extract_all_plants -------------------------- *)
(* The length of the run of outcomes in errs that ends the sequence.       *)
TrailingRun(seq, errs) ==
    CHOOSE k \in 0..Len(seq) :
        /\ \A i \in (Len(seq) - k + 1)..Len(seq) : seq[i] \in errs
        /\ k < Len(seq) => seq[Len(seq) - k] \notin errs

(* A run of n outcomes in errs ends at one of the first upto positions.    *)
HasRun(seq, errs, n, upto) ==
    \E i \in n..upto : \A j \in (i - n + 1)..i : seq[j] \in errs

RowsOfOutcomes(errs) ==
    LET idx == SortedSeq({i \in 1..Len(plants.outcomes) :
                             plants.outcomes[i] \notin errs})
    IN [k \in 1..Len(idx) |-> flatten_plant_data(plants.fetched[idx[k]])]

(* The loop counts the iterations whose outcome is in errs.                *)
StopsAfterRunOf(errs) ==
    /\ plants.fetched =
           [i \in 1..Len(plants.fetched) |-> plants.start_id + i - 1]
    /\ plants.plant_id = plants.start_id + Len(plants.fetched)
    /\ plants.consecutive_errors = TrailingRun(plants.outcomes, errs)
    /\ ~HasRun(plants.outcomes, errs, plants.max_consecutive_errors,
               Len(plants.outcomes) - 1)
    /\ plants.pc = "returned" =>
           TrailingRun(plants.outcomes, errs) = plants.max_consecutive_errors
    /\ plants.all_plants = RowsOfOutcomes(errs)

(* C22 as stated: the ids are fetched in increasing order from start_id,   *)
(* once each; the run length counts the consecutive fetches that raised    *)
(* ValueError and a successful fetch resets it; the loop stops exactly     *)
(* after the first run of max_consecutive_errors such fetches; the table   *)
(* has one row per successful fetch, in id order.                          *)
C22_StopsAfterFailedFetches == StopsAfterRunOf({"fetch_error"})

(* C22 amended: the run length counts the consecutive iterations in which  *)
(* fetch_plant_data or flatten_plant_data raised ValueError, an iteration  *)
(* in which neither raised resets it, the loop stops exactly after the     *)
(* first run of max_consecutive_errors such iterations, and the table has  *)
(* one row per iteration in which neither raised, in id order.             *)
C22_StopsAfterFailedIterations ==
    StopsAfterRunOf({"fetch_error", "flatten_error"})

(* The function has returned rows after a run that held an empty payload,  *)
(* and a plant had reset an earlier, shorter run.                          *)
C22_Witness ==
    /\ plants.pc = "returned"
    /\ plants.max_consecutive_errors = 2
    /\ plants.all_plants # <<>>
    /\ \E i \in 1..Len(plants.outcomes) : plants.outcomes[i] = "flatten_error"
    /\ \E i \in 2..Len(plants.outcomes) :
           plants.outcomes[i] = "ok" /\ plants.outcomes[i - 1] # "ok"

(* ---------------------------------------------------------------------- *)
NaturalKey(table) ==
    CASE table = "Country" -> "country"
      [] table = "Location" -> "city"
      [] table = "Plant" -> "plant_id"
      [] table = "Botanist" -> "botanist_name"

Inserted(table) == SubSeq(db'[table], Len(db[table]) + 1, Len(db'[table]))

(* C23: every row a master load inserts has a natural key (country, city,  *)
(* plant_id, botanist_name) that the table did not hold before the load,   *)
(* and once a sync has completed, a further sync with the same extracted   *)
(* data inserts no row into the four tables and returns zero for each of   *)
(* the four counts.                                                        *)
C23_OnlyNewRecords ==
    [][api.pc = "master" =>
         LET table == Head(api.todo)
         IN /\ \A i \in 1..Len(Inserted(table)) :
                  ~IsIn(Inserted(table)[i][NaturalKey(table)], db[table],
                        NaturalKey(table))
            /\ api.syncs >= 1 =>
                  /\ db' = db
                  /\ api'.counts[CountKey(table)] = 0]_vars

C23_Witness ==
    /\ api.pc = "record"
    /\ api.syncs = 2
    /\ api.counts = [countries |-> 0, locations |-> 0, plants |-> 0,
                     botanists |-> 0]
    /\ Len(db.Country) = 2
    /\ Len(db.Botanist) = 2
    /\ db = api.before
(* ---------------------------------------------------------------------- *)
Committed(col, table) ==
    \A i \in 1..Len(api.df) : IsIn(api.df[i][col], db[table], col)

(* C24: when the Location load runs, the batch's Country rows are          *)
(* committed; when the Plant load runs, the batch's Location rows are      *)
(* committed; the Record load runs only once the four master loads are     *)
(* done; and every Location or Plant row of the batch is stored with a     *)
(* foreign key that is not null and names its parent row.                  *)
C24_DependencyOrder ==
    /\ (api.pc = "master" /\ Head(api.todo) = "Location")
           => Committed("country", "Country")
    /\ (api.pc = "master" /\ Head(api.todo) = "Plant")
           => Committed("city", "Location")
    /\ api.pc \in {"connect", "sync", "master"} => db.Record = api.before.Record
    /\ api.pc = "record" =>
           /\ api.todo = <<>>
           /\ DOMAIN api.counts =
                  {"countries", "locations", "plants", "botanists"}
           /\ Committed("botanist_name", "Botanist")
    /\ \A i \in 1..Len(db.Location) :
           /\ db.Location[i].country_id # NaN
           /\ \E j \in 1..Len(db.Country) : \E k \in 1..Len(api.df) :
                  /\ db.Country[j].country_id = db.Location[i].country_id
                  /\ api.df[k].city = db.Location[i].city
                  /\ api.df[k].country = db.Country[j].country
    /\ \A i \in 1..Len(db.Plant) :
           /\ db.Plant[i].location_id # NaN
           /\ \E j \in 1..Len(db.Location) : \E k \in 1..Len(api.df) :
                  /\ db.Location[j].location_id = db.Plant[i].location_id
                  /\ api.df[k].plant_id = db.Plant[i].plant_id
                  /\ api.df[k].city = db.Location[j].city

C24_Witness ==
    /\ api.pc = "record"
    /\ api.run = 1
    /\ api.counts = [countries |-> 2, locations |-> 2, plants |-> 2,
                     botanists |-> 2]
    /\ \A i \in 1..Len(db.Plant) : db.Plant[i].location_id \in {1, 2}
    /\ \A i \in 1..Len(db.Location) : db.Location[i].country_id \in {1, 2}
(* ---------------------------------------------------------------------- *)
Matching(df) ==
    SelectSeq(df, LAMBDA row :
        /\ row.plant_id # NaN
        /\ IsIn(row.botanist_name, db.Botanist, "botanist_name"))

(* C25: load_record_table inserts exactly the input rows whose             *)
(* botanist_name matches a Botanist row and whose plant_id is present, one *)
(* Record row for each, and returns the number of rows inserted; when no   *)
(* input row matches, the database is left as it was and 0 is returned.    *)
C25_InsertsMatchingRows ==
    [][api.pc = "record" =>
         LET matching == Matching(create_record_table(api.df))
             new == Inserted("Record")
         IN /\ Len(new) = Len(matching)
            /\ \A i \in 1..Len(new) :
                  /\ new[i].plant_id = matching[i].plant_id
                  /\ new[i].temperature = matching[i].temperature
                  /\ new[i].moisture = matching[i].moisture
            /\ api'.records_loaded = Len(new)
            /\ matching = <<>> => db' = db]_vars
(* ---------------------------------------------------------------------- *)
(* A Record row that the table held when the archive handler started is    *)
(* gone; load_record_table only appends.                                   *)
RecordDeleted ==
    \E i \in 1..Len(arch.before) :
        \/ i > Len(db.Record)
        \/ db.Record[i] # arch.before[i]

NumericPlants ==
    {e \in PlantIdsOf(combined_df) \ {NaN} :
        \A i \in 1..Len(combined_df) :
            combined_df[i].plant_id = e =>
                /\ combined_df[i].temperature # NaN
                /\ combined_df[i].moisture # NaN}

Returned == pc \in {"averages", "done"}

(* C28: for every plant with numeric values, its temperature count plus    *)
(* its moisture count plus the number of its cleaned rows is the number of *)
(* its input rows, and each of its cleaned rows is one of its input rows,  *)
(* unchanged and present once.                                             *)
C28_CountsAccountForRows ==
    Returned =>
        \A e \in NumericPlants :
            LET in == GroupOf(combined_df, e)
                out == GroupOf(cleaned_df, e)
            IN /\ outlier_counts[e].temperature + outlier_counts[e].moisture
                      + Len(out) = Len(in)
               /\ \A i \in 1..Len(out) : \E j \in 1..Len(in) : in[j] = out[i]
               /\ \A i \in 1..Len(out) : \A k \in 1..Len(out) :
                      out[i] = out[k] => i = k

(* A plant of five rows: each stage removes one row, three are returned.   *)
C28_Witness ==
    /\ pc = "averages"
    /\ \E e \in NumericPlants :
           /\ Len(GroupOf(combined_df, e)) = 5
           /\ outlier_counts[e] = [temperature |-> 1, moisture |-> 1]
           /\ Len(GroupOf(cleaned_df, e)) = 3

(* C29: clean_outliers keeps at least one row of every plant whose values  *)
(* are all numeric; when every plant of the input is such a plant, the     *)
(* plant_ids of the cleaned table are the plant_ids of the input.          *)
C29_NoPlantEliminated ==
    Returned =>
        /\ \A e \in NumericPlants : GroupOf(cleaned_df, e) # <<>>
        /\ NumericPlants = PlantIdsOf(combined_df) =>
               PlantIdsOf(cleaned_df) = PlantIdsOf(combined_df)

(* Two plants are returned, one of them after losing a row.                *)
C29_Witness ==
    /\ pc = "averages"
    /\ NumericPlants = {1, 2}
    /\ PlantIdsOf(cleaned_df) = {1, 2}
    /\ \E e \in NumericPlants : outlier_counts[e].temperature >= 1

(* C30: a plant of at most three rows with numeric values loses no row:    *)
(* both of its counts are 0 and its cleaned rows are its input rows; a     *)
(* plant with a positive count has four or more rows.                      *)
C30_SmallPartitionsKeepAllRows ==
    Returned =>
        \A e \in NumericPlants :
            /\ Len(GroupOf(combined_df, e)) <= 3 =>
                   /\ outlier_counts[e] = [temperature |-> 0, moisture |-> 0]
                   /\ GroupOf(cleaned_df, e) = GroupOf(combined_df, e)
            /\ outlier_counts[e] # [temperature |-> 0, moisture |-> 0] =>
                   Len(GroupOf(combined_df, e)) >= 4

(* A plant of three rows with the temperatures 0, 0 and HighSignal keeps   *)
(* its three rows.                                                         *)
C30_Witness ==
    /\ pc = "averages"
    /\ \E e \in NumericPlants :
           /\ Len(GroupOf(combined_df, e)) = 3
           /\ \E i \in 1..3 :
                  GroupOf(cleaned_df, e)[i].temperature = HighSignal
           /\ \E i \in 1..3 : \E j \in 1..3 :
                  /\ i # j
                  /\ GroupOf(cleaned_df, e)[i].temperature = 0
                  /\ GroupOf(cleaned_df, e)[j].temperature = 0
           /\ Len(GroupOf(cleaned_df, e)) = 3
============================================================================
